---------------------------- MODULE Spec2Model ----------------------------
(***************************************************************************)
(* A model of gimli's endian-aware byte cursor:                            *)
(*   src/src/endianity.rs     the Endianity trait and its three strategies *)
(*   src/src/endian_slice.rs  EndianSlice and its Reader implementation    *)
(*                                                                         *)
(* Integers wider than 16 bits do not fit the model checker's integers, so *)
(* an unsigned w-bit integer is held as its base-65536 limbs, least        *)
(* significant limb first (a u16 has one limb, a u32 two, a u64 four).  A  *)
(* signed integer is a sign and the limbs of its magnitude.                *)
(***************************************************************************)
EXTENDS Integers, Sequences, FiniteSets, TLC

(***************************************************************************)
(* Bounds of the model.                                                    *)
(***************************************************************************)
\* Length of the backing buffer a root view is created over.
BufLen == 8
\* Longest byte sequence handed directly to an Endianity decode function.
MaxBytes == 8
\* Address of the backing buffer's first byte.
BufBase == 4
\* Longest buffer handed to write_u64.
MaxWriteLen == 10

(***************************************************************************)
(* Outcomes of a call: a returned value, a returned error, or a panic.     *)
(***************************************************************************)
Ok(x)  == [kind |-> "ok", val |-> x]
Err(e) == [kind |-> "err", err |-> e]
Panic  == [kind |-> "panic"]

Reverse(s) == [i \in 1..Len(s) |-> s[Len(s) + 1 - i]]

(***************************************************************************)
(* endianity.rs                                                            *)
(***************************************************************************)
Strategies == {"LittleEndian", "BigEndian", "RunTimeEndian::Little", "RunTimeEndian::Big"}

\* is_big_endian with the run-time comparison inverted.
is_big_endian_inverted(self) ==
    CASE self = "LittleEndian" -> FALSE
      [] self = "BigEndian"    -> TRUE
      [] OTHER                 -> self = "RunTimeEndian::Little"

\* impl Endianity for RunTimeEndian / LittleEndian / BigEndian
is_big_endian(self) ==
    CASE self = "LittleEndian" -> FALSE
      [] self = "BigEndian"    -> TRUE
      [] OTHER                 -> self # "RunTimeEndian::Little"

is_little_endian(self) == ~is_big_endian(self)

\* byteorder::BigEndian::read_uN: the first n bytes, most significant first.
\* The byte of weight 256^k (k = 0 for the least significant) is buf[n - k].
BigEndian_byte(buf, n, k) == buf[n - k]

\* byteorder::LittleEndian::read_uN: the first n bytes, least significant
\* first.  The byte of weight 256^k is buf[k + 1].
LittleEndian_byte(buf, n, k) == buf[k + 1]

BigEndian_read(buf, n) ==
    IF Len(buf) < n THEN Panic
    ELSE Ok([j \in 1..(n \div 2) |->
               BigEndian_byte(buf, n, 2 * j - 2) + 256 * BigEndian_byte(buf, n, 2 * j - 1)])

LittleEndian_read(buf, n) ==
    IF Len(buf) < n THEN Panic
    ELSE Ok([j \in 1..(n \div 2) |->
               LittleEndian_byte(buf, n, 2 * j - 2) + 256 * LittleEndian_byte(buf, n, 2 * j - 1)])

Endianity_read_u16(self, buf) ==
    IF is_big_endian(self) THEN BigEndian_read(buf, 2) ELSE LittleEndian_read(buf, 2)

\* read_u32 that ignores the strategy and decodes in one fixed order.
Endianity_read_u32_fixed_order(self, buf) == LittleEndian_read(buf, 4)

Endianity_read_u32(self, buf) ==
    IF is_big_endian(self) THEN BigEndian_read(buf, 4) ELSE LittleEndian_read(buf, 4)

\* read_u64 with the big-endian call pasted into both branches.
Endianity_read_u64_both_big(self, buf) == BigEndian_read(buf, 8)

Endianity_read_u64(self, buf) ==
    IF is_big_endian(self) THEN BigEndian_read(buf, 8) ELSE LittleEndian_read(buf, 8)

\* `u as iN`: the same bit pattern read as two's complement.  The sign is the
\* top bit; the magnitude of a negative value is the complement plus one.
TopBitSet(u) == u[Len(u)] >= 32768

RECURSIVE NegCarry(_, _)
\* Carry into limb j when adding one to the complement of u.
NegCarry(u, j) ==
    IF j = 1 THEN 1
    ELSE ((65535 - u[j - 1]) + NegCarry(u, j - 1)) \div 65536

TwosNegate(u) == [j \in 1..Len(u) |-> ((65535 - u[j]) + NegCarry(u, j)) % 65536]

\* A cast that takes the complement without adding one.
as_signed_ones_complement(u) ==
    IF TopBitSet(u) THEN [neg |-> TRUE, mag |-> [j \in 1..Len(u) |-> 65535 - u[j]]]
    ELSE [neg |-> FALSE, mag |-> u]

as_signed(u) ==
    IF TopBitSet(u) THEN [neg |-> TRUE, mag |-> TwosNegate(u)]
    ELSE [neg |-> FALSE, mag |-> u]

cast_signed(r) == IF r.kind = "ok" THEN Ok(as_signed(r.val)) ELSE r

Endianity_read_i16(self, buf) == cast_signed(Endianity_read_u16(self, buf))

Endianity_read_i32(self, buf) == cast_signed(Endianity_read_u32(self, buf))

Endianity_read_i64(self, buf) == cast_signed(Endianity_read_u64(self, buf))

\* The byte of weight 256^k of the value n.
ByteOf(n, k) ==
    LET limb == n[(k \div 2) + 1]
    IN  IF k % 2 = 0 THEN limb % 256 ELSE limb \div 256

\* byteorder::BigEndian::write_u64: buf[i] takes the byte of weight 256^(8-i).
BigEndian_write_u64(buf, n) ==
    IF Len(buf) < 8 THEN [res |-> Panic, buf |-> buf]
    ELSE [res |-> Ok("unit"),
          buf |-> [i \in 1..Len(buf) |-> IF i <= 8 THEN ByteOf(n, 8 - i) ELSE buf[i]]]

\* byteorder::LittleEndian::write_u64: buf[i] takes the byte of weight 256^(i-1).
LittleEndian_write_u64(buf, n) ==
    IF Len(buf) < 8 THEN [res |-> Panic, buf |-> buf]
    ELSE [res |-> Ok("unit"),
          buf |-> [i \in 1..Len(buf) |-> IF i <= 8 THEN ByteOf(n, i - 1) ELSE buf[i]]]

\* write_u64 that writes least significant byte first whatever the endianity.
Endianity_write_u64_always_little(self, buf, n) == LittleEndian_write_u64(buf, n)

\* write_u64: the outcome and the buffer afterwards.
Endianity_write_u64(self, buf, n) ==
    IF is_big_endian(self) THEN BigEndian_write_u64(buf, n) ELSE LittleEndian_write_u64(buf, n)

(***************************************************************************)
(* endian_slice.rs                                                         *)
(*                                                                         *)
(* A slice is an address and a length; its bytes are those of the backing  *)
(* buffer, which lies at addresses BufBase .. BufBase + BufLen - 1.  An    *)
(* EndianSlice is a slice and an endianity.                                *)
(***************************************************************************)
VARIABLES
    buf,      \* the backing buffer: a sequence of bytes, never written
    root,     \* the view EndianSlice::new(buf, endian) returned
    view,     \* the view the operations are called on
    last,     \* the last call on view: its name, arguments, receiver before, outcome
    consumed, \* bytes taken from the front of view's region since new() or empty() set it
    emptied,  \* whether empty() has been called on view
    bytes,    \* a byte sequence handed directly to an Endianity function
    strategy, \* the Endianity value the function is called on
    decoded   \* the last Endianity call: its name and outcome

vars == <<buf, root, view, last, consumed, emptied, bytes, strategy, decoded>>
sliceVars == <<buf, root, view, last, consumed, emptied>>
endianVars == <<bytes, strategy, decoded>>

\* The backing buffers tried: each pattern repeated to BufLen bytes.  The
\* first is the buffer of the crate's own tests (endian_slice.rs, line 352);
\* the second has the high-bit bytes and repeated bytes; the third is text:
\* "hi", a two-byte UTF-8 character and bytes that are no UTF-8.
Patterns ==
    { <<1, 2, 3, 4, 5, 6, 7, 8, 9, 0>>,
      <<128, 0, 0, 128, 255, 255, 1, 128, 2>>,
      <<104, 105, 195, 169, 255, 254, 104, 0>> }

Buffers == { [i \in 1..BufLen |-> p[((i - 1) % Len(p)) + 1]] : p \in Patterns }

\* Bytes searched for: those of the buffer and one that never occurs in it.
FindBytes == { buf[i] : i \in 1..Len(buf) } \cup {9, 200}

\* Lengths and indices passed to the operations: all that fit and some that do not.
Lens == 0..(BufLen + 1)

\* The bytes a slice denotes (`Deref`, line 183).
Deref(s) == [i \in 1..s.len |-> buf[s.ptr - BufBase + i]]

\* Native slice indexing: &s[a..b], &s[a..], &s[..b].
Index_Range(s, a, b) ==
    IF a > b \/ b > s.len THEN Panic ELSE Ok([ptr |-> s.ptr + a, len |-> b - a])

Index_RangeFrom(s, a) ==
    IF a > s.len THEN Panic ELSE Ok([ptr |-> s.ptr + a, len |-> s.len - a])

Index_RangeTo(s, b) ==
    IF b > s.len THEN Panic ELSE Ok([ptr |-> s.ptr, len |-> b])

\* EndianSlice::new
new(slice, endian) == [slice |-> slice, endian |-> endian]

\* A call's effect: its outcome and the receiver afterwards.
Effect(res, self) == [res |-> res, self |-> self]

\* Wrap an indexing outcome in a view carrying the same endianity.
WithEndian(r, endian) == IF r.kind = "ok" THEN Ok(new(r.val, endian)) ELSE r

\* range whose child starts where the parent starts.
range_keeps_start(self, a, b) ==
    IF a > b \/ b > self.slice.len THEN Panic
    ELSE Ok(new([ptr |-> self.slice.ptr, len |-> b - a], self.endian))

range(self, a, b) == WithEndian(Index_Range(self.slice, a, b), self.endian)

\* range_from whose child takes the default run-time endianity, not its parent's.
range_from_default_endian(self, a) ==
    WithEndian(Index_RangeFrom(self.slice, a),
               IF self.endian = "RunTimeEndian::Big" THEN "RunTimeEndian::Little" ELSE self.endian)

range_from(self, a) == WithEndian(Index_RangeFrom(self.slice, a), self.endian)

\* range_to that clamps its bound to the length instead of panicking.
range_to_clamped(self, b) ==
    Ok(new([ptr |-> self.slice.ptr, len |-> IF b > self.slice.len THEN self.slice.len ELSE b],
           self.endian))

range_to(self, b) == WithEndian(Index_RangeTo(self.slice, b), self.endian)

\* split_at whose suffix starts one byte late.
split_at_drops_a_byte(self, idx) ==
    LET p == range_to(self, idx)
        q == range_from(self, idx + 1)
    IN  IF p.kind = "panic" THEN Panic
        ELSE IF q.kind = "panic" THEN Ok(<<p.val, new([ptr |-> 0, len |-> 0], self.endian)>>)
        ELSE Ok(<<p.val, q.val>>)

\* (self.range_to(..idx), self.range_from(idx..)): a panic of either is the call's.
split_at(self, idx) ==
    LET p == range_to(self, idx)
        q == range_from(self, idx)
    IN  IF p.kind = "panic" THEN Panic
        ELSE IF q.kind = "panic" THEN Panic
        ELSE Ok(<<p.val, q.val>>)

\* The usize 2^64 - n that `ptr - base_ptr` wraps to when ptr is n below base_ptr.
Wrapped(n) == [two_to_the_64_minus |-> n]

\* offset_from computed from the lengths of the two views, not their starts.
offset_from_by_length(self, base, debug) ==
    IF debug /\ ~(base.slice.ptr <= self.slice.ptr) THEN Panic
    ELSE Ok(base.slice.len - self.slice.len)

\* offset_from: with debug assertions on, the two debug_assert!s panic when
\* they fail; without them the subtraction is returned, wrapped when negative.
offset_from(self, base, debug) ==
    LET base_ptr == base.slice.ptr
        ptr == self.slice.ptr
    IN  IF debug /\ ~(base_ptr <= ptr) THEN Panic
        ELSE IF debug /\ ~(ptr + self.slice.len <= base_ptr + base.slice.len) THEN Panic
        ELSE IF ptr >= base_ptr THEN Ok(ptr - base_ptr)
        ELSE Ok(Wrapped(base_ptr - ptr))

\* find that reports the last occurrence of the byte, not the first.
EndianSlice_find_last(self, byte) ==
    LET b == Deref(self.slice)
        hits == { i \in 1..Len(b) : b[i] = byte }
    IN  IF hits = {} THEN Err("None")
        ELSE Ok((CHOOSE i \in hits : \A j \in hits : i >= j) - 1)

\* self.slice.iter().position(|ch| *ch == byte): None is Err("None") here.
EndianSlice_find(self, byte) ==
    LET b == Deref(self.slice)
        hits == { i \in 1..Len(b) : b[i] = byte }
    IN  IF hits = {} THEN Err("None")
        ELSE Ok((CHOOSE i \in hits : \A j \in hits : i <= j) - 1)

\* read_slice that also refuses to take all the bytes that are left.
read_slice_rejects_exact(self, len) ==
    IF self.slice.len <= len THEN Effect(Err("UnexpectedEof"), self)
    ELSE Effect(Ok(Index_RangeTo(self.slice, len).val),
                [self EXCEPT !.slice = Index_RangeFrom(self.slice, len).val])

\* read_slice with the slice advanced before the length is checked.
read_slice_consumes_on_error(self, len) ==
    IF self.slice.len < len
    THEN Effect(Err("UnexpectedEof"),
                [self EXCEPT !.slice = [ptr |-> self.slice.ptr + self.slice.len, len |-> 0]])
    ELSE Effect(Ok(Index_RangeTo(self.slice, len).val),
                [self EXCEPT !.slice = Index_RangeFrom(self.slice, len).val])

read_slice(self, len) ==
    IF self.slice.len < len THEN Effect(Err("UnexpectedEof"), self)
    ELSE Effect(Ok(Index_RangeTo(self.slice, len).val),
                [self EXCEPT !.slice = Index_RangeFrom(self.slice, len).val])

\* Whether b has at position i a byte in lo..hi.
ByteIn(b, i, lo, hi) == i <= Len(b) /\ b[i] >= lo /\ b[i] <= hi

\* The UTF-8 sequence b starts at position i: a well-formed one and its
\* length, or an ill-formed one and the length of its longest part that could
\* still have begun a well-formed sequence (one byte when none could).
Utf8Chunk(b, i) ==
    LET c == b[i]
        lo == IF c = 224 THEN 160 ELSE IF c = 240 THEN 144 ELSE 128
        hi == IF c = 237 THEN 159 ELSE IF c = 244 THEN 143 ELSE 191
    IN  IF c < 128 THEN [valid |-> TRUE, len |-> 1]
        ELSE IF c >= 194 /\ c <= 223
             THEN IF ByteIn(b, i + 1, 128, 191) THEN [valid |-> TRUE, len |-> 2]
                  ELSE [valid |-> FALSE, len |-> 1]
        ELSE IF c >= 224 /\ c <= 239
             THEN IF ~ByteIn(b, i + 1, lo, hi) THEN [valid |-> FALSE, len |-> 1]
                  ELSE IF ~ByteIn(b, i + 2, 128, 191) THEN [valid |-> FALSE, len |-> 2]
                  ELSE [valid |-> TRUE, len |-> 3]
        ELSE IF c >= 240 /\ c <= 244
             THEN IF ~ByteIn(b, i + 1, lo, hi) THEN [valid |-> FALSE, len |-> 1]
                  ELSE IF ~ByteIn(b, i + 2, 128, 191) THEN [valid |-> FALSE, len |-> 2]
                  ELSE IF ~ByteIn(b, i + 3, 128, 191) THEN [valid |-> FALSE, len |-> 3]
                  ELSE [valid |-> TRUE, len |-> 4]
        ELSE [valid |-> FALSE, len |-> 1]

\* Whether b is well-formed UTF-8 from position i on.
RECURSIVE Utf8Valid(_, _)
Utf8Valid(b, i) ==
    IF i > Len(b) THEN TRUE
    ELSE LET k == Utf8Chunk(b, i) IN k.valid /\ Utf8Valid(b, i + k.len)

\* A string, as the bytes of its UTF-8 encoding.
Str(b) == [str |-> b]

\* str::from_utf8: the same bytes as a str, or the Utf8Error.
from_utf8(b) == IF Utf8Valid(b, 1) THEN Ok(Str(b)) ELSE Err("Utf8Error")

\* String::from_utf8_lossy from position i on: well-formed sequences as they
\* are, U+FFFD (EF BF BD) for each ill-formed one.
RECURSIVE from_utf8_lossy(_, _)
from_utf8_lossy(b, i) ==
    IF i > Len(b) THEN <<>>
    ELSE LET k == Utf8Chunk(b, i)
         IN  (IF k.valid THEN SubSeq(b, i, i + k.len - 1) ELSE <<239, 191, 189>>)
             \o from_utf8_lossy(b, i + k.len)

\* EndianSlice::to_string
EndianSlice_to_string(self) ==
    LET r == from_utf8(Deref(self.slice))
    IN  IF r.kind = "ok" THEN r ELSE Err("BadUtf8")

\* EndianSlice::to_string_lossy
EndianSlice_to_string_lossy(self) == Str(from_utf8_lossy(Deref(self.slice), 1))

\* EndianSlice::slice, and the buf() a parent module reads
EndianSlice_slice(self) == Deref(self.slice)

Reader_len(self) == self.slice.len

is_empty(self) == self.slice.len = 0

to_slice(self) == Ok(Deref(self.slice))

\* to_string that, as a consuming read would, leaves the view past the string.
to_string_consumes(self) ==
    LET r == from_utf8(Deref(self.slice))
    IN  IF r.kind = "ok"
        THEN Effect(r, [self EXCEPT !.slice = Index_RangeFrom(self.slice, self.slice.len).val])
        ELSE Effect(Err("BadUtf8"), [self EXCEPT !.slice = Index_RangeTo(self.slice, 0).val])

\* Reader::to_string: the receiver is `&self` and stays as it is.
to_string(self) ==
    LET r == from_utf8(Deref(self.slice))
    IN  IF r.kind = "ok" THEN Effect(r, self) ELSE Effect(Err("BadUtf8"), self)

\* Reader::to_string_lossy
to_string_lossy(self) == Ok(Str(from_utf8_lossy(Deref(self.slice), 1)))

\* An address the empty slice literal &[] may have.  The literal is a
\* zero-sized constant of the program, no part of buf, and where it lies is
\* left to the build: below the buffer, above it, or, taking no room, at the
\* very address the buffer starts or ends at.
EmptyPtrs == {BufBase - 1, BufBase, BufBase + BufLen, BufBase + BufLen + 1}

empty(self, p) == Effect(Ok("unit"), [self EXCEPT !.slice = [ptr |-> p, len |-> 0]])

\* truncate that keeps the last len bytes instead of the first.
truncate_keeps_back(self, len) ==
    IF self.slice.len < len THEN Effect(Err("UnexpectedEof"), self)
    ELSE Effect(Ok("unit"),
                [self EXCEPT !.slice = Index_RangeFrom(self.slice, self.slice.len - len).val])

truncate(self, len) ==
    IF self.slice.len < len THEN Effect(Err("UnexpectedEof"), self)
    ELSE Effect(Ok("unit"), [self EXCEPT !.slice = Index_RangeTo(self.slice, len).val])

Reader_find(self, byte) ==
    LET r == EndianSlice_find(self, byte)
    IN  IF r.kind = "ok" THEN r ELSE Err("UnexpectedEof")

\* skip that drops len bytes from the back of the view, not from its front.
skip_from_back(self, len) ==
    IF self.slice.len < len THEN Effect(Err("UnexpectedEof"), self)
    ELSE Effect(Ok("unit"),
                [self EXCEPT !.slice = Index_RangeTo(self.slice, self.slice.len - len).val])

\* skip that keeps the first len bytes instead of dropping them.
skip_keeps_front(self, len) ==
    IF self.slice.len < len THEN Effect(Err("UnexpectedEof"), self)
    ELSE Effect(Ok("unit"), [self EXCEPT !.slice = Index_RangeTo(self.slice, len).val])

skip(self, len) ==
    IF self.slice.len < len THEN Effect(Err("UnexpectedEof"), self)
    ELSE Effect(Ok("unit"), [self EXCEPT !.slice = Index_RangeFrom(self.slice, len).val])

\* split whose length check is off by one: taking all that is left fails.
split_off_by_one(self, len) ==
    IF self.slice.len <= len THEN Effect(Err("UnexpectedEof"), self)
    ELSE Effect(Ok(new(Index_RangeTo(self.slice, len).val, self.endian)),
                [self EXCEPT !.slice = Index_RangeFrom(self.slice, len).val])

\* split that returns what is left after the prefix instead of the prefix.
split_returns_rest(self, len) ==
    LET e == read_slice(self, len)
    IN  IF e.res.kind # "ok" THEN e
        ELSE Effect(Ok(new(e.self.slice, e.self.endian)), e.self)

\* In each method below `e` is the effect of read_slice and the `?` after it
\* returns its error as it is; self.endian is read after read_slice has run.
split(self, len) ==
    LET e == read_slice(self, len)
    IN  IF e.res.kind # "ok" THEN e
        ELSE Effect(Ok(new(e.res.val, e.self.endian)), e.self)

read_u8_array(self, len) ==
    LET e == read_slice(self, len)
    IN  IF e.res.kind # "ok" THEN e
        ELSE Effect(Ok(Deref(e.res.val)), e.self)

read_u8(self) ==
    LET e == read_slice(self, 1)
    IN  IF e.res.kind # "ok" THEN e
        ELSE Effect(Ok(Deref(e.res.val)[1]), e.self)

\* slice[0] as i8
read_i8(self) ==
    LET e == read_slice(self, 1)
        b == Deref(e.res.val)[1]
    IN  IF e.res.kind # "ok" THEN e
        ELSE Effect(Ok(IF b >= 128 THEN b - 256 ELSE b), e.self)

read_u16(self) ==
    LET e == read_slice(self, 2)
    IN  IF e.res.kind # "ok" THEN e
        ELSE Effect(Endianity_read_u16(e.self.endian, Deref(e.res.val)), e.self)

read_i16(self) ==
    LET e == read_slice(self, 2)
    IN  IF e.res.kind # "ok" THEN e
        ELSE Effect(Endianity_read_i16(e.self.endian, Deref(e.res.val)), e.self)

read_u32(self) ==
    LET e == read_slice(self, 4)
    IN  IF e.res.kind # "ok" THEN e
        ELSE Effect(Endianity_read_u32(e.self.endian, Deref(e.res.val)), e.self)

read_i32(self) ==
    LET e == read_slice(self, 4)
    IN  IF e.res.kind # "ok" THEN e
        ELSE Effect(Endianity_read_i32(e.self.endian, Deref(e.res.val)), e.self)

read_u64(self) ==
    LET e == read_slice(self, 8)
    IN  IF e.res.kind # "ok" THEN e
        ELSE Effect(Endianity_read_u64(e.self.endian, Deref(e.res.val)), e.self)

read_i64(self) ==
    LET e == read_slice(self, 8)
    IN  IF e.res.kind # "ok" THEN e
        ELSE Effect(Endianity_read_i64(e.self.endian, Deref(e.res.val)), e.self)

(***************************************************************************)
(* The cursor as a state machine: one action per method of EndianSlice,    *)
(* called on `view` with arguments drawn from Lens.  A panic ends the run. *)
(***************************************************************************)
NoCall == [op |-> "none", res |-> Ok(0)]

Init ==
    /\ buf \in Buffers
    /\ \E endian \in Strategies :
          /\ root = new([ptr |-> BufBase, len |-> BufLen], endian)
          /\ view = root
          /\ last = [op |-> "new", arg |-> <<>>, pre |-> root, res |-> Ok(root)]
    /\ consumed = 0
    /\ emptied = FALSE
    /\ bytes = <<>>
    /\ strategy = "LittleEndian"
    /\ decoded = NoCall

\* The bytes a call takes from the front of the view: the length asked of
\* read_slice or skip when the call succeeds, none when it fails.
Consumes(op, arg, r) ==
    IF r.kind # "ok" THEN 0
    ELSE CASE op \in {"skip", "split", "read_u8_array"} -> arg[1]
           [] op \in {"read_u8", "read_i8"}             -> 1
           [] op \in {"read_u16", "read_i16"}           -> 2
           [] op \in {"read_u32", "read_i32"}           -> 4
           [] op \in {"read_u64", "read_i64"}           -> 8
           [] op = "skip;split"                         -> arg[2]
           [] OTHER                                     -> 0

\* A `&mut self` call with effect e.
Call(op, arg, e) ==
    /\ last.res.kind # "panic"
    /\ view' = e.self
    /\ last' = [op |-> op, arg |-> arg, pre |-> view, res |-> e.res]
    /\ consumed' = IF op = "empty" THEN 0 ELSE consumed + Consumes(op, arg, e.res)
    /\ emptied' = (emptied \/ op = "empty")
    /\ UNCHANGED <<buf, root, endianVars>>

\* A `&self` call with outcome res.
Query(op, arg, res) == Call(op, arg, Effect(res, view))

Empty == \E p \in EmptyPtrs : Call("empty", <<>>, empty(view, p))

Truncate == \E n \in Lens : Call("truncate", <<n>>, truncate(view, n))

Skip == \E n \in Lens : Call("skip", <<n>>, skip(view, n))

Split == \E n \in Lens : Call("split", <<n>>, split(view, n))

ReadU8Array == \E n \in Lens : Call("read_u8_array", <<n>>, read_u8_array(view, n))

ReadU8 == Call("read_u8", <<>>, read_u8(view))

ReadI8 == Call("read_i8", <<>>, read_i8(view))

ReadU16 == Call("read_u16", <<>>, read_u16(view))

ReadI16 == Call("read_i16", <<>>, read_i16(view))

ReadU32 == Call("read_u32", <<>>, read_u32(view))

ReadI32 == Call("read_i32", <<>>, read_i32(view))

ReadU64 == Call("read_u64", <<>>, read_u64(view))

ReadI64 == Call("read_i64", <<>>, read_i64(view))

SplitAt == \E i \in Lens : Query("split_at", <<i>>, split_at(view, i))

Range == \E a \in Lens, b \in Lens : Query("range", <<a, b>>, range(view, a, b))

RangeFrom == \E a \in Lens : Query("range_from", <<a>>, range_from(view, a))

RangeTo == \E b \in Lens : Query("range_to", <<b>>, range_to(view, b))

Find == \E byte \in FindBytes : Query("find", <<byte>>, EndianSlice_find(view, byte))

ReaderFind == \E byte \in FindBytes : Query("Reader::find", <<byte>>, Reader_find(view, byte))

ReaderLen == Query("len", <<>>, Ok(Reader_len(view)))

IsEmpty == Query("is_empty", <<>>, Ok(is_empty(view)))

Slice == Query("slice", <<>>, Ok(EndianSlice_slice(view)))

ToSlice == Query("to_slice", <<>>, to_slice(view))

EndianSliceToString == Query("to_string", <<>>, EndianSlice_to_string(view))

EndianSliceToStringLossy == Query("to_string_lossy", <<>>, Ok(EndianSlice_to_string_lossy(view)))

ReaderToString == Call("Reader::to_string", <<>>, to_string(view))

ReaderToStringLossy == Query("Reader::to_string_lossy", <<>>, to_string_lossy(view))

\* view.offset_from(root), in a build with or without debug assertions.
OffsetFrom == \E debug \in BOOLEAN : Query("offset_from", <<>>, offset_from(view, root, debug))

\* child.offset_from(parent), for the child a range method has just returned
\* from the view.  The step keeps the range call's arguments and receiver.
ChildOffsetFrom ==
    /\ last.op \in {"range", "range_from", "range_to"}
    /\ last.res.kind = "ok"
    /\ \E debug \in BOOLEAN :
         last' = [op |-> [range |-> "range;offset_from",
                          range_from |-> "range_from;offset_from",
                          range_to |-> "range_to;offset_from"][last.op],
                  arg |-> last.arg,
                  pre |-> last.pre,
                  res |-> offset_from(last.res.val, last.pre, debug)]
    /\ UNCHANGED <<buf, root, view, consumed, emptied, endianVars>>

\* v.split(len) as the next call after a v.skip(n) that succeeded.  The step
\* records both arguments and the view as it was before the skip.
SplitAfterSkip ==
    /\ last.op = "skip"
    /\ last.res.kind = "ok"
    /\ \E len \in Lens :
         LET e == split(view, len)
             arg == <<last.arg[1], len>>
         IN  /\ view' = e.self
             /\ last' = [op |-> "skip;split", arg |-> arg, pre |-> last.pre, res |-> e.res]
             /\ consumed' = consumed + Consumes("skip;split", arg, e.res)
    /\ UNCHANGED <<buf, root, emptied, endianVars>>

Next ==
    \/ Empty
    \/ Truncate
    \/ Skip
    \/ Split
    \/ ReadU8Array
    \/ ReadU8
    \/ ReadI8
    \/ ReadU16
    \/ ReadI16
    \/ ReadU32
    \/ ReadI32
    \/ ReadU64
    \/ ReadI64
    \/ SplitAt
    \/ Range
    \/ RangeFrom
    \/ RangeTo
    \/ Find
    \/ ReaderFind
    \/ ReaderLen
    \/ IsEmpty
    \/ Slice
    \/ ToSlice
    \/ EndianSliceToString
    \/ EndianSliceToStringLossy
    \/ ReaderToString
    \/ ReaderToStringLossy
    \/ OffsetFrom
    \/ ChildOffsetFrom
    \/ SplitAfterSkip

Spec == Init /\ [][Next]_vars

(***************************************************************************)
(* The Endianity functions on their own: a byte sequence and a strategy    *)
(* are drawn, and each action calls one function on them.                  *)
(***************************************************************************)
\* Byte values the sequences are built from.
ByteVals == {0, 1, 128}

\* The byte sequences the specification's examples decode.
ExampleSeqs == { <<1, 2>>, <<0, 1>> }

ByteSeqs == UNION { [1..n -> ByteVals] : n \in 0..MaxBytes } \cup ExampleSeqs

InitEndian ==
    /\ bytes \in ByteSeqs
    /\ strategy \in Strategies
    /\ decoded = NoCall
    /\ buf = <<>>
    /\ root = new([ptr |-> BufBase, len |-> 0], "LittleEndian")
    /\ view = root
    /\ last = [op |-> "new", arg |-> <<>>, pre |-> root, res |-> Ok(root)]
    /\ consumed = 0
    /\ emptied = FALSE

Decoded(op, res) ==
    /\ decoded' = [op |-> op, res |-> res]
    /\ UNCHANGED <<bytes, strategy, sliceVars>>

IsBigEndian == Decoded("is_big_endian", Ok(is_big_endian(strategy)))

IsLittleEndian == Decoded("is_little_endian", Ok(is_little_endian(strategy)))

DecodeU16 == Decoded("read_u16", Endianity_read_u16(strategy, bytes))

DecodeU32 == Decoded("read_u32", Endianity_read_u32(strategy, bytes))

DecodeU64 == Decoded("read_u64", Endianity_read_u64(strategy, bytes))

DecodeI16 == Decoded("read_i16", Endianity_read_i16(strategy, bytes))

DecodeI32 == Decoded("read_i32", Endianity_read_i32(strategy, bytes))

DecodeI64 == Decoded("read_i64", Endianity_read_i64(strategy, bytes))

NextEndian ==
    \/ IsBigEndian
    \/ IsLittleEndian
    \/ DecodeU16
    \/ DecodeU32
    \/ DecodeU64
    \/ DecodeI16
    \/ DecodeI32
    \/ DecodeI64

SpecEndian == InitEndian /\ [][NextEndian]_vars

(***************************************************************************)
(* The state machine of write_u64: a buffer `bytes`, an endianity           *)
(* `strategy`, and in `decoded` the last call, the value written and the   *)
(* buffer before the write.                                                *)
(***************************************************************************)
LimbVals == {0, 258}

\* 0x0102030405060708
ExampleU64 == <<1800, 1286, 772, 258>>

\* The u64 values written, as four 16-bit limbs, least significant first.
U64Vals == [1..4 -> LimbVals] \cup {ExampleU64, <<65535, 65535, 65535, 65535>>}

\* The buffers written into: every length up to MaxWriteLen, bytes all different.
WriteBufs == { [i \in 1..n |-> (f + 16 * i) % 256] : n \in 0..MaxWriteLen, f \in {0, 255} }

InitWrite ==
    /\ bytes \in WriteBufs
    /\ strategy \in Strategies
    /\ decoded = NoCall
    /\ buf = <<>>
    /\ root = new([ptr |-> BufBase, len |-> 0], "LittleEndian")
    /\ view = root
    /\ last = [op |-> "new", arg |-> <<>>, pre |-> root, res |-> Ok(root)]
    /\ consumed = 0
    /\ emptied = FALSE

\* strategy.write_u64(&mut bytes, n); a panic ends the program.
WriteU64 ==
    /\ decoded.res.kind # "panic"
    /\ \E n \in U64Vals :
         LET w == Endianity_write_u64(strategy, bytes, n)
         IN  /\ bytes' = w.buf
             /\ decoded' = [op |-> "write_u64", n |-> n, before |-> bytes, res |-> w.res]
    /\ UNCHANGED <<strategy, sliceVars>>

\* reader.read_u64(&bytes) right after a write, by the same or another endianity.
ReadBack ==
    /\ decoded.op = "write_u64"
    /\ decoded.res.kind = "ok"
    /\ \E reader \in Strategies :
         decoded' = [op |-> "write_u64;read_u64", n |-> decoded.n, before |-> decoded.before,
                     reader |-> reader, res |-> Endianity_read_u64(reader, bytes)]
    /\ UNCHANGED <<bytes, strategy, sliceVars>>

NextWrite ==
    \/ WriteU64
    \/ ReadBack

SpecWrite == InitWrite /\ [][NextWrite]_vars

(***************************************************************************)
(* Properties.                                                             *)
(***************************************************************************)
\* The bytes a view covers.
Bytes(v) == Deref(v.slice)

\* The last call's receiver before the call, its outcome, and its first argument.
pre == last.pre
res == last.res
arg1 == last.arg[1]

\* The last call returned UnexpectedEof and left the receiver as it was:
\* the same start, length, bytes and strategy.
FailedUnchanged ==
    /\ res = Err("UnexpectedEof")
    /\ view.slice.ptr = pre.slice.ptr
    /\ view.slice.len = pre.slice.len
    /\ Bytes(view) = Bytes(pre)
    /\ view.endian = pre.endian

\* The receiver now covers exactly the bytes from index n to its old end.
AdvancedBy(n) ==
    /\ view.slice.ptr = pre.slice.ptr + n
    /\ view.slice.len = pre.slice.len - n
    /\ view.slice.ptr + view.slice.len = pre.slice.ptr + pre.slice.len
    /\ Bytes(view) = SubSeq(Bytes(pre), n + 1, pre.slice.len)
    /\ view.endian = pre.endian

\* The number of bytes a fixed-width read asks for.
ReadWidth ==
    CASE last.op \in {"read_u8", "read_i8"}   -> 1
      [] last.op \in {"read_u16", "read_i16"} -> 2
      [] last.op \in {"read_u32", "read_i32"} -> 4
      [] last.op \in {"read_u64", "read_i64"} -> 8
      [] last.op = "read_u8_array"            -> arg1

FixedReads ==
    {"read_u8", "read_i8", "read_u16", "read_i16", "read_u32", "read_i32",
     "read_u64", "read_i64", "read_u8_array"}

\* C1: a fixed-width read on a view with fewer bytes than its width returns
\* UnexpectedEof and leaves the view's start, length, bytes and strategy as
\* they were; a 3-byte view still has length 3 after a failed read_u32.
C1_ShortReadFailsUnchanged ==
    (last.op \in FixedReads /\ pre.slice.len < ReadWidth) => FailedUnchanged

\* A read_u32 on a 3-byte view has failed.
C1_Witness ==
    /\ last.op = "read_u32"
    /\ pre.slice.len = 3
    /\ res.kind = "err"
    /\ view.slice.len = 3

RECURSIVE MulCarry(_, _, _)
\* Carry into limb j when the limbs l are multiplied by 256 and b is added.
MulCarry(l, b, j) ==
    IF j = 1 THEN b ELSE (l[j - 1] * 256 + MulCarry(l, b, j - 1)) \div 65536

RECURSIVE ValueMsbFirst(_, _)
\* The integer whose base-256 digits, most significant first, are d: each
\* digit multiplies what came before by 256 and adds itself.  In nl limbs.
ValueMsbFirst(d, nl) ==
    IF d = <<>> THEN [j \in 1..nl |-> 0]
    ELSE LET l == ValueMsbFirst(SubSeq(d, 1, Len(d) - 1), nl)
             b == d[Len(d)]
         IN  [j \in 1..nl |-> (l[j] * 256 + MulCarry(l, b, j)) % 65536]

\* The byte order a strategy stands for, by its name.
BigOrder(s) == s \in {"BigEndian", "RunTimeEndian::Big"}

\* The integer the first w bytes of b encode in the order of strategy s.
ValueInOrder(s, b, w) ==
    LET field == SubSeq(b, 1, w)
    IN  ValueMsbFirst(IF BigOrder(s) THEN field ELSE Reverse(field), w \div 2)

\* C2: read_u16/u32/u64 on a view with at least w = 2/4/8 bytes returns the
\* integer its first w bytes encode in the order of the view's own strategy
\* (most significant byte first for big, least significant first for
\* little), and the view afterwards covers exactly the bytes from index w to
\* its old end, so the next read decodes the adjacent field.
C2_UnsignedReadDecodesAndAdvances ==
    (last.op \in {"read_u16", "read_u32", "read_u64"} /\ pre.slice.len >= ReadWidth) =>
        /\ res = Ok(ValueInOrder(pre.endian, Bytes(pre), ReadWidth))
        /\ AdvancedBy(ReadWidth)

\* A big-endian read_u32 has decoded the second four-byte field of the test
\* buffer: bytes 5, 6, 7, 8 are 0x0506 * 65536 + 0x0708.
C2_Witness ==
    /\ last.op = "read_u32"
    /\ pre.slice.ptr = BufBase + 4
    /\ Bytes(pre) = <<5, 6, 7, 8>>
    /\ pre.endian = "RunTimeEndian::Big"
    /\ res = Ok(<<1800, 1286>>)
    /\ view.slice.len = 0

\* C3: split(n) with n <= len returns a view of the first n bytes carrying
\* the receiver's strategy and leaves the receiver covering the remaining
\* len - n bytes, the returned bytes followed by the remaining ones being the
\* original bytes; with n > len it returns UnexpectedEof and changes nothing.
C3_SplitTakesPrefix ==
    last.op = "split" =>
        IF arg1 <= pre.slice.len
        THEN /\ res.kind = "ok"
             /\ Bytes(res.val) = SubSeq(Bytes(pre), 1, arg1)
             /\ res.val.endian = pre.endian
             /\ AdvancedBy(arg1)
             /\ view.slice.len = pre.slice.len - arg1
             /\ Bytes(res.val) \o Bytes(view) = Bytes(pre)
        ELSE FailedUnchanged

\* A split has taken a proper, non-empty prefix.
C3_Witness ==
    /\ last.op = "split"
    /\ arg1 = 3
    /\ pre.slice.len = 5
    /\ res.kind = "ok"
    /\ Len(Bytes(res.val)) = 3
    /\ view.slice.len = 2

\* C4: skip(n) with n <= len succeeds and leaves the view covering exactly
\* the bytes from index n to its old end (length len - n, end unchanged);
\* with n > len it returns UnexpectedEof and changes nothing.
C4_SkipAdvances ==
    last.op = "skip" =>
        IF arg1 <= pre.slice.len
        THEN res = Ok("unit") /\ AdvancedBy(arg1)
        ELSE FailedUnchanged

\* A skip has dropped some but not all bytes of a view.
C4_Witness ==
    /\ last.op = "skip"
    /\ arg1 = 2
    /\ pre.slice.len = 6
    /\ res.kind = "ok"
    /\ view.slice.len = 4

\* C5: truncate(new_len) with new_len <= len succeeds and leaves the view
\* covering exactly its former first new_len bytes, its start unchanged;
\* with new_len > len it returns UnexpectedEof and changes nothing, so it
\* never extends the view.
C5_TruncateKeepsFront ==
    last.op = "truncate" =>
        IF arg1 <= pre.slice.len
        THEN /\ res = Ok("unit")
             /\ view.slice.ptr = pre.slice.ptr
             /\ view.slice.len = arg1
             /\ Bytes(view) = SubSeq(Bytes(pre), 1, arg1)
             /\ view.endian = pre.endian
        ELSE FailedUnchanged /\ view.slice.len < arg1

\* A truncate has shortened a view that does not start at the buffer's start.
C5_Witness ==
    /\ last.op = "truncate"
    /\ arg1 = 2
    /\ pre.slice.len = 5
    /\ pre.slice.ptr > BufBase
    /\ res.kind = "ok"
    /\ view.slice.len = 2

\* C6: split_at(i) with 0 <= i <= len returns (prefix, suffix) whose lengths
\* add up to len, prefix's bytes being the view's first i bytes and suffix's
\* its bytes from i to the end, both carrying the view's strategy.
C6_SplitAtPartitions ==
    (last.op = "split_at" /\ arg1 <= pre.slice.len) =>
        /\ res.kind = "ok"
        /\ res.val[1].slice.len + res.val[2].slice.len = pre.slice.len
        /\ Bytes(res.val[1]) = SubSeq(Bytes(pre), 1, arg1)
        /\ Bytes(res.val[2]) = SubSeq(Bytes(pre), arg1 + 1, pre.slice.len)
        /\ res.val[1].endian = pre.endian
        /\ res.val[2].endian = pre.endian

\* The crate's test: split_at(3) of the whole test buffer.
C6_Witness ==
    /\ last.op = "split_at"
    /\ arg1 = 3
    /\ pre = root
    /\ res.kind = "ok"
    /\ Bytes(res.val[1]) = <<1, 2, 3>>
    /\ Len(Bytes(res.val[2])) = BufLen - 3

\* C7: split_at(i) with i > len returns no pair of views: it panics.  So do
\* range, range_from and range_to with a bound beyond the view's length.
C7_OutOfBoundsPanics ==
    /\ (last.op \in {"split_at", "range_from", "range_to"} /\ arg1 > pre.slice.len)
          => res = Panic
    /\ (last.op = "range" /\ (arg1 > pre.slice.len \/ last.arg[2] > pre.slice.len))
          => res = Panic

\* A split_at beyond the end of a non-empty view has panicked.
C7_Witness ==
    /\ last.op = "split_at"
    /\ pre.slice.len > 0
    /\ arg1 > pre.slice.len
    /\ res.kind = "panic"

\* The outcome of the Endianity function named op on strategy s and bytes b.
Answer(op, s, b) ==
    CASE op = "is_big_endian"    -> Ok(is_big_endian(s))
      [] op = "is_little_endian" -> Ok(is_little_endian(s))
      [] op = "read_u16"         -> Endianity_read_u16(s, b)
      [] op = "read_u32"         -> Endianity_read_u32(s, b)
      [] op = "read_u64"         -> Endianity_read_u64(s, b)
      [] op = "read_i16"         -> Endianity_read_i16(s, b)
      [] op = "read_i32"         -> Endianity_read_i32(s, b)
      [] op = "read_i64"         -> Endianity_read_i64(s, b)

\* The number of bytes the last Endianity decode reads.
DecodeWidth ==
    CASE decoded.op \in {"read_u16", "read_i16"} -> 2
      [] decoded.op \in {"read_u32", "read_i32"} -> 4
      [] decoded.op \in {"read_u64", "read_i64"} -> 8

UnsignedDecodes == {"read_u16", "read_u32", "read_u64"}
SignedDecodes == {"read_i16", "read_i32", "read_i64"}

\* C8: a byte sequence of length 2, 4 or 8 decoded as an unsigned integer of
\* that width by the fixed little-endian strategy gives the value the fixed
\* big-endian strategy decodes from the reversed sequence (and the other way
\* round); [0x01, 0x02] is 0x0201 as little-endian u16 and 0x0102 as
\* big-endian u16.
C8_OrderSymmetry ==
    /\ (decoded.op \in UnsignedDecodes /\ Len(bytes) = DecodeWidth) =>
          /\ decoded.res.kind = "ok"
          /\ strategy = "LittleEndian" =>
                decoded.res = Answer(decoded.op, "BigEndian", Reverse(bytes))
          /\ strategy = "BigEndian" =>
                decoded.res = Answer(decoded.op, "LittleEndian", Reverse(bytes))
    /\ (decoded.op = "read_u16" /\ bytes = <<1, 2>>) =>
          /\ strategy = "LittleEndian" => decoded.res = Ok(<<513>>)
          /\ strategy = "BigEndian" => decoded.res = Ok(<<258>>)

\* The little-endian strategy has decoded eight bytes that differ from their
\* reversal: 0x8000000000000001.
C8_Witness ==
    /\ strategy = "LittleEndian"
    /\ decoded.op = "read_u64"
    /\ bytes = <<1, 0, 0, 0, 0, 0, 0, 128>>
    /\ decoded.res = Ok(<<1, 0, 0, 32768>>)

\* C9: the run-time strategy tagged Big answers is_big_endian and decodes
\* every width exactly as BigEndian does, and the one tagged Little as
\* LittleEndian does; [0x00, 0x01] read as u16 is 1 when tagged Big and 256
\* when tagged Little.
C9_RunTimeMatchesFixed ==
    /\ (decoded.op # "none" /\ strategy = "RunTimeEndian::Big") =>
          /\ decoded.res = Answer(decoded.op, "BigEndian", bytes)
          /\ decoded.op = "is_big_endian" => decoded.res = Ok(TRUE)
    /\ (decoded.op # "none" /\ strategy = "RunTimeEndian::Little") =>
          /\ decoded.res = Answer(decoded.op, "LittleEndian", bytes)
          /\ decoded.op = "is_big_endian" => decoded.res = Ok(FALSE)
    /\ (decoded.op = "read_u16" /\ bytes = <<0, 1>>) =>
          /\ strategy = "RunTimeEndian::Big" => decoded.res = Ok(<<1>>)
          /\ strategy = "RunTimeEndian::Little" => decoded.res = Ok(<<256>>)

\* The strategy tagged Little has read [0x00, 0x01] as 256.
C9_Witness ==
    /\ strategy = "RunTimeEndian::Little"
    /\ decoded.op = "read_u16"
    /\ bytes = <<0, 1>>
    /\ decoded.res = Ok(<<256>>)

RECURSIVE SumCarry(_, _, _)
\* Carry out of limb j when the limb sequences m and u are added.
SumCarry(m, u, j) ==
    IF j = 0 THEN 0 ELSE (m[j] + u[j] + SumCarry(m, u, j - 1)) \div 65536

\* m + u = 2^w, w being 16 bits per limb: every limb of the sum is zero and
\* one is carried out of the top limb.
SumsToTwoToTheWidth(m, u) ==
    /\ Len(m) = Len(u)
    /\ \A j \in 1..Len(u) : (m[j] + u[j] + SumCarry(m, u, j - 1)) % 65536 = 0
    /\ SumCarry(m, u, Len(u)) = 1

\* C10: on at least w/8 bytes read_iW returns the two's-complement reading of
\* what read_uW returns on the same bytes with the same strategy: the
\* unsigned value u itself when u < 2^(w-1), and otherwise u - 2^w, the
\* negative number whose magnitude added to u gives 2^w.
C10_SignedIsTwosComplement ==
    (decoded.op \in SignedDecodes /\ Len(bytes) >= DecodeWidth) =>
        LET unsignedOp == CASE decoded.op = "read_i16" -> "read_u16"
                            [] decoded.op = "read_i32" -> "read_u32"
                            [] decoded.op = "read_i64" -> "read_u64"
            u == Answer(unsignedOp, strategy, bytes).val
            i == decoded.res.val
        IN  /\ decoded.res.kind = "ok"
            /\ Len(u) = DecodeWidth \div 2
            /\ IF u[Len(u)] < 32768
               THEN i = [neg |-> FALSE, mag |-> u]
               ELSE i.neg /\ SumsToTwoToTheWidth(i.mag, u)

\* read_i64 has returned -(2^63 - 1) for the bytes of 0x8000000000000001.
C10_Witness ==
    /\ strategy = "BigEndian"
    /\ decoded.op = "read_i64"
    /\ bytes = <<128, 0, 0, 0, 0, 0, 0, 1>>
    /\ decoded.res = Ok([neg |-> TRUE, mag |-> <<65535, 65535, 65535, 32767>>])

\* C11 (fails: empty() does not collapse the region in place): after any
\* sequence of checked cursor operations the view's region is a sub-range of
\* the root's, so that both conditions offset_from(root) asserts hold: the
\* root's start is not above the view's, and the view's end not above the root's.
C11_ViewWithinRoot ==
    /\ root.slice.ptr <= view.slice.ptr
    /\ view.slice.ptr + view.slice.len <= root.slice.ptr + root.slice.len

\* C12: the child a range method returns for bounds within the view lies at
\* its start index from the view: range(start..end) and range_from(start..)
\* give offset_from == start, and range_to(..end) gives 0.
C12_ChildOffsetIsStart ==
    /\ last.op \in {"range;offset_from", "range_from;offset_from"} => res = Ok(arg1)
    /\ last.op = "range_to;offset_from" => res = Ok(0)

\* root.range(3..7).offset_from(root) == 3
C12_Witness ==
    /\ last.op = "range;offset_from"
    /\ pre = root
    /\ last.arg = <<3, 7>>
    /\ res = Ok(3)

\* The views the last call returned.
ReturnedViews ==
    IF res.kind # "ok" THEN {}
    ELSE IF last.op \in {"new", "split", "skip;split", "range", "range_from", "range_to"}
         THEN {res.val}
    ELSE IF last.op = "split_at" THEN {res.val[1], res.val[2]}
    ELSE {}

\* C13: the view and every view a call returns carry the endianity given to
\* new(), whatever calls have been made.
C13_EndianInherited ==
    /\ view.endian = root.endian
    /\ \A v \in ReturnedViews : v.endian = root.endian

\* A suffix taken from a view that was advanced, with the run-time big order.
C13_Witness ==
    /\ last.op = "range_from"
    /\ res.kind = "ok"
    /\ pre # root
    /\ res.val.slice.len > 0
    /\ root.endian = "RunTimeEndian::Big"
    /\ res.val.endian = "RunTimeEndian::Big"

\* The last step was skip(n) and then a split of all that the skip left.
SplitOfWholeRest ==
    /\ last.op = "skip;split"
    /\ last.arg[2] = pre.slice.len - last.arg[1]

\* C14 (as stated): after skip(n) succeeds, splitting the whole remaining
\* length succeeds, leaves the view empty and returns a view whose content
\* equals that of the view before the skip.
C14_SplitReturnsPreSkipContent ==
    SplitOfWholeRest =>
        /\ res.kind = "ok"
        /\ view.slice.len = 0
        /\ Bytes(res.val) = Bytes(pre)

\* C14 (amended): after skip(n) succeeds, splitting the whole remaining length
\* succeeds, leaves the view empty and returns a view whose content is that of
\* the view right after the skip: the pre-skip bytes without their first n.
C14_SplitReturnsPostSkipContent ==
    SplitOfWholeRest =>
        /\ res.kind = "ok"
        /\ view.slice.len = 0
        /\ Bytes(res.val) = SubSeq(Bytes(pre), arg1 + 1, pre.slice.len)
        /\ res.val.endian = pre.endian

\* skip(3) of 8 bytes, then split(5)
C14_Witness ==
    /\ SplitOfWholeRest
    /\ pre = root
    /\ last.arg = <<3, 5>>
    /\ res.kind = "ok"
    /\ Bytes(res.val) # Bytes(pre)

\* C15: find(byte) returns the smallest index at which the view holds the
\* byte, and reports that there is none (None from the inherent find,
\* UnexpectedEof from the Reader's) exactly when no byte of the view equals it.
C15_FindFirstOccurrence ==
    last.op \in {"find", "Reader::find"} =>
        LET b == Bytes(pre)
            present == \E i \in 1..Len(b) : b[i] = arg1
        IN  /\ view = pre
            /\ present =>
                 /\ res.kind = "ok"
                 /\ res.val \in 0..(Len(b) - 1)
                 /\ b[res.val + 1] = arg1
                 /\ \A j \in 1..res.val : b[j] # arg1
            /\ ~present =>
                 res = IF last.op = "find" THEN Err("None") ELSE Err("UnexpectedEof")

\* find(4) over [1,2,3,4,5] is 3
C15_Witness ==
    /\ last.op = "find"
    /\ Bytes(pre) = <<1, 2, 3, 4, 5>>
    /\ arg1 = 4
    /\ res = Ok(3)

\* The calls that take `&self`.
NonConsuming ==
    { "find", "Reader::find", "to_string", "Reader::to_string", "to_string_lossy",
      "Reader::to_string_lossy", "to_slice", "len", "is_empty", "slice", "offset_from",
      "split_at", "range", "range_from", "range_to",
      "range;offset_from", "range_from;offset_from", "range_to;offset_from" }

\* C16: a non-consuming call leaves the view as it was, its start, length,
\* bytes and endianity, whether the call succeeds or fails.
C16_NonConsumingFrame ==
    last.op \in NonConsuming =>
        /\ view.slice.ptr = pre.slice.ptr
        /\ view.slice.len = pre.slice.len
        /\ Bytes(view) = Bytes(pre)
        /\ view.endian = pre.endian

\* to_string over [0xFF, 0xFE] fails with BadUtf8 and the view is as before
C16_Witness ==
    /\ last.op = "Reader::to_string"
    /\ Bytes(pre) = <<255, 254>>
    /\ res = Err("BadUtf8")
    /\ view = pre

\* The length the last checked call asked for.
AskedLen ==
    IF last.op \in FixedReads THEN ReadWidth
    ELSE IF last.op = "skip;split" THEN last.arg[2]
    ELSE arg1

CheckedCalls == FixedReads \cup {"skip", "split", "truncate", "skip;split"}

\* The length the view had when the last checked call was made.
LenAtCall ==
    IF last.op = "skip;split" THEN pre.slice.len - arg1 ELSE pre.slice.len

\* C17: an empty view is not a dead end.  On any view, an empty one and one
\* just advanced by skip(n) among them, split(0) and skip(0) succeed and leave
\* the length as it is, split(0) returning an empty view, and so does
\* truncate(0) on an empty view; on an empty view every read, skip, split or
\* truncate of positive length fails with UnexpectedEof, never panics, and
\* the view is still empty.
C17_EmptyIsContinuable ==
    /\ (last.op \in {"split", "skip", "skip;split"} /\ AskedLen = 0) =>
         /\ res.kind = "ok"
         /\ view.slice.len = LenAtCall
         /\ last.op # "skip" => res.val.slice.len = 0
    /\ (last.op = "truncate" /\ arg1 = 0 /\ pre.slice.len = 0) =>
         /\ res.kind = "ok"
         /\ view.slice.len = 0
    /\ (last.op \in CheckedCalls /\ LenAtCall = 0 /\ AskedLen > 0) =>
         /\ res = Err("UnexpectedEof")
         /\ view.slice.len = 0
         /\ view.endian = pre.endian

\* skip(n) to the end of the view, then split(0)
C17_Witness ==
    /\ last.op = "skip;split"
    /\ arg1 > 0
    /\ last.arg[2] = 0
    /\ res.kind = "ok"
    /\ res.val.slice.len = 0
    /\ view.slice.len = 0

\* The calls that take bytes from the front of the view when they succeed.
FrontCalls == FixedReads \cup {"skip", "split", "skip;split"}

\* The last step of the view, from what it was before the call (before the
\* skip, for a skip and split) to what it is now.
ShrinkStep ==
    LET ok == res.kind = "ok"
        n  == IF last.op \in FixedReads THEN ReadWidth
              ELSE IF last.op = "skip;split" THEN arg1 + last.arg[2]
              ELSE arg1
        b  == Bytes(pre)
    IN  /\ view.slice.len <= pre.slice.len
        /\ IF ok /\ last.op \in FrontCalls
           THEN /\ view.slice.len = pre.slice.len - n
                /\ view.slice.ptr = pre.slice.ptr + n
                /\ Bytes(view) = SubSeq(b, n + 1, Len(b))
           ELSE IF ok /\ last.op = "truncate"
           THEN /\ view.slice.len = n
                /\ view.slice.ptr = pre.slice.ptr
                /\ Bytes(view) = SubSeq(b, 1, n)
           ELSE IF last.op = "empty"
           THEN /\ view.slice.len = 0
                /\ Bytes(view) = <<>>
           ELSE IF last.op = "skip;split"
           THEN /\ view.slice.len = pre.slice.len - arg1
                /\ view.slice.ptr = pre.slice.ptr + arg1
           ELSE view = pre

\* C18: along any sequence of calls on a view its length never grows and its
\* bytes are a contiguous run of the bytes given to new(): a successful read,
\* skip or split takes bytes from the front, a successful truncate and empty()
\* take bytes from the back, and a failed call or a query leaves the view as
\* it is, so that no byte once taken is seen again.
C18_OnlyShrinks ==
    /\ ShrinkStep
    /\ \E a \in 0..(root.slice.len - view.slice.len) :
         Bytes(view) = SubSeq(Bytes(root), a + 1, a + view.slice.len)

\* A view that has lost bytes at both ends and still has some
C18_Witness ==
    /\ last.op = "truncate"
    /\ res.kind = "ok"
    /\ ~emptied
    /\ view.slice.len > 0
    /\ view.slice.ptr > root.slice.ptr
    /\ view.slice.ptr + view.slice.len < root.slice.ptr + root.slice.len

\* C19: when the view, a copy of the root, has been advanced by successful
\* skips, splits and reads taking k bytes in all, with successful truncates
\* and failed calls among them, view.offset_from(root) is k, in a build with
\* debug assertions and in one without.
C19_OffsetIsConsumed ==
    (last.op = "offset_from" /\ ~emptied) => res = Ok(consumed)

\* Bytes were taken from the front and others truncated away
C19_Witness ==
    /\ last.op = "offset_from"
    /\ ~emptied
    /\ consumed > 0
    /\ consumed + view.slice.len < root.slice.len
    /\ res = Ok(consumed)

\* A 16-bit limb with its two bytes exchanged.
Swap16(x) == (x % 256) * 256 + (x \div 256)

\* The value whose bytes are those of n in the opposite order.
SwapBytes(n) == [j \in 1..4 |-> Swap16(n[5 - j])]

\* C20: write_u64 into a buffer of at least 8 bytes succeeds and leaves the
\* bytes beyond the first 8 as they were; read_u64 of the written buffer with
\* an endianity of the same order returns the value written, and with one of
\* the opposite order the value with its bytes swapped.
C20_WriteReadRoundTrip ==
    /\ decoded.op \in {"write_u64", "write_u64;read_u64"} =>
         /\ Len(decoded.before) >= 8 <=> decoded.res.kind # "panic"
         /\ Len(bytes) = Len(decoded.before)
         /\ \A i \in 9..Len(bytes) : bytes[i] = decoded.before[i]
    /\ decoded.op = "write_u64;read_u64" =>
         decoded.res = IF is_big_endian(decoded.reader) = is_big_endian(strategy)
                       THEN Ok(decoded.n)
                       ELSE Ok(SwapBytes(decoded.n))

\* 0x0102030405060708 written big-endian into 10 bytes and read back
C20_Witness ==
    /\ decoded.op = "write_u64;read_u64"
    /\ strategy = "RunTimeEndian::Big"
    /\ decoded.reader = "BigEndian"
    /\ decoded.n = ExampleU64
    /\ Len(bytes) = 10
    /\ SubSeq(bytes, 1, 8) = <<1, 2, 3, 4, 5, 6, 7, 8>>
    /\ decoded.res = Ok(ExampleU64)

=============================================================================
